---- MODULE Spec2Model ----
(***************************************************************************)
(* A model of the AACT clinical-trial ETL: the record cleaner              *)
(* (DataCleaner.clean_study), the batching generator                       *)
(* (batch_cleaned_trials), the dry-run loop (run_pipeline_dry_run), the    *)
(* source (AACTClient.fetch_trials) and the graph sink (Neo4jClient).      *)
(*                                                                         *)
(* The specifications share the module's variables; each starts with the   *)
(* parts it does not step at rest:                                         *)
(*   SpecCleaner  clean_study applied to raw studies drawn in Init;        *)
(*   SpecBatcher  the generator, stepped one loop iteration at a time,     *)
(*                its consumer, and the dry-run loop;                      *)
(*   SpecSink     a graph and any sequence of load_trials_batch calls;     *)
(*   SpecInfer    the route and dosage-form inference over rule tables;    *)
(*   SpecSource   AACTClient.fetch_trials and a consumer (SpecSourceFair   *)
(*                with the consumer taking its steps);                     *)
(*   SpecSchema   any sequence of ensure_graph_schema calls;               *)
(*   SpecLoader   load_trials_to_neo4j over a sequence of clean batches.   *)
(***************************************************************************)
EXTENDS Integers, Sequences, FiniteSets, TLC

\* ------------------------------------------------------------------------
\* Bounds of the model.
\* ------------------------------------------------------------------------
MaxStrLen == 2       \* longest brief_title and condition string
MaxNameLen == 1      \* longest drug or sponsor name
MaxEntries == 2      \* longest drugs, conditions or sponsors list
MaxStreamLen == 5    \* longest upstream sequence of raw trials
MaxBatchSize == 3    \* largest batch_size
MaxLimit == 6        \* largest limit
MaxLoadLen == 2      \* longest batch handed to load_trials_batch

\* ------------------------------------------------------------------------
\* Python values.  A str is its sequence of characters; None, str and list
\* are told apart by their type, as isinstance and truthiness tell them.
\* ------------------------------------------------------------------------
PyNone == [type |-> "NoneType"]
PyStr(s) == [type |-> "str", val |-> s]
PyList(l) == [type |-> "list", val |-> l]
\* An opaque string (an identifier, a vocabulary value): never empty.
PyTok(s) == [type |-> "str", tok |-> s]

IsNone(x) == x.type = "NoneType"
IsList(x) == x.type = "list"

\* bool(x): None, "" and [] are false.
Truthy(x) ==
    /\ ~IsNone(x)
    /\ ("val" \in DOMAIN x => x.val # <<>>)

\* x or y
PyOr(x, y) == IF Truthy(x) THEN x ELSE y

\* dict.get(key): None for a missing key.
Get(dict, key) == IF key \in DOMAIN dict THEN dict[key] ELSE PyNone

\* A dict literal: the keys whose value is Absent are left out of it.
Absent == [type |-> "absent"]
Dict(fields) ==
    [k \in {x \in DOMAIN fields : fields[x] # Absent} |-> fields[k]]

\* The characters of the model: whitespace, and one letter in both cases.
Alphabet == {" ", "a", "A"}
IsSpace(c) == c = " "
IsCased(c) == c \in {"a", "A"}
Upper(c) == IF c = "a" THEN "A" ELSE c
Lower(c) == IF c = "A" THEN "a" ELSE c

RECURSIVE LStrip(_)
LStrip(s) == IF s # <<>> /\ IsSpace(Head(s)) THEN LStrip(Tail(s)) ELSE s

RECURSIVE RStrip(_)
RStrip(s) ==
    IF s # <<>> /\ IsSpace(s[Len(s)])
    THEN RStrip(SubSeq(s, 1, Len(s) - 1))
    ELSE s

\* str.strip()
Strip(s) == RStrip(LStrip(s))

\* str.title(): a cased character is upper case after an uncased one (or at
\* the start) and lower case after a cased one.
Title(s) ==
    [i \in 1..Len(s) |->
        IF i > 1 /\ IsCased(s[i - 1]) THEN Lower(s[i]) ELSE Upper(s[i])]

\* str.lower()
LowerStr(s) == [i \in 1..Len(s) |-> Lower(s[i])]

\* All strings of at most n characters.
StringsUpTo(n) == UNION {[1..k -> Alphabet] : k \in 0..n}

\* All lists of at most n elements of S.
ListsUpTo(S, n) == UNION {[1..k -> S] : k \in 0..n}

\* The orders in which iterating a set may visit its elements.
Iterations(S) ==
    {q \in [1..Cardinality(S) -> S] : {q[i] : i \in DOMAIN q} = S}

\* ------------------------------------------------------------------------
\* The text inference engine (TextParser.infer_route_and_form).  Its rules
\* are an ordered list; each names a pattern, a category and the canonical
\* value the category takes when the pattern occurs in the text.
\* ------------------------------------------------------------------------
Unknown == PyTok("Unknown")

RuleSet ==
    << [pattern |-> <<"a", "a">>, category |-> "route", value |-> PyTok("Intravenous")],
       [pattern |-> <<"a">>, category |-> "route", value |-> PyTok("Oral")],
       [pattern |-> <<"a">>, category |-> "dosage_form", value |-> PyTok("Tablet")] >>

RouteVocabulary == {PyTok("Oral"), PyTok("Intravenous"), Unknown}
DosageFormVocabulary == {PyTok("Tablet"), Unknown}

\* The pattern occurs in the text.
Matches(pattern, normalized) ==
    \E i \in 1..Len(normalized) :
        /\ i + Len(pattern) - 1 <= Len(normalized)
        /\ SubSeq(normalized, i, i + Len(pattern) - 1) = pattern

\* The rules of the category that match the text, by position.
Hits(rules, category, normalized) ==
    {i \in DOMAIN rules :
        /\ rules[i].category = category
        /\ Matches(rules[i].pattern, normalized)}

\* The value of the last rule of the category that matches.
LastMatch(rules, category, normalized) ==
    LET hits == Hits(rules, category, normalized)
    IN  IF hits = {} THEN Unknown
        ELSE rules[CHOOSE i \in hits : \A j \in hits : i >= j].value

\* The value of the first rule of the category, in rule order, that matches.
FirstMatch(rules, category, normalized) ==
    LET hits == Hits(rules, category, normalized)
    IN  IF hits = {} THEN Unknown
        ELSE rules[CHOOSE i \in hits : \A j \in hits : i <= j].value

\* An engine that sends every text but None and "" to the rules.
infer_without_blank_test(rules, description) ==
    IF ~Truthy(description)
    THEN [route |-> Unknown, dosage_form |-> Unknown]
    ELSE LET normalized == LowerStr(description.val)
         IN  [route |-> FirstMatch(rules, "route", normalized),
              dosage_form |-> FirstMatch(rules, "dosage_form", normalized)]

\* infer_route_and_form of a parser that loaded the rules.
infer(rules, description) ==
    IF ~Truthy(description) \/ Strip(description.val) = <<>>
    THEN [route |-> Unknown, dosage_form |-> Unknown]
    ELSE LET normalized == LowerStr(description.val)
         IN  [route |-> FirstMatch(rules, "route", normalized),
              dosage_form |-> FirstMatch(rules, "dosage_form", normalized)]

\* The parser of the DataCleaner.
infer_route_and_form(description) == infer(RuleSet, description)

\* ------------------------------------------------------------------------
\* DataCleaner (src/transform/data_cleaner.py).  A method that mutates the
\* study it is given is the operator from the study before to the study
\* after.
\* ------------------------------------------------------------------------
\* A study whose title is the raw brief_title as it is.
_init_study_with_raw_title(raw_study) ==
    [nct_id |-> Get(raw_study, "nct_id"),
     title |-> Get(raw_study, "brief_title"),
     phase |-> Get(raw_study, "phase"),
     status |-> Get(raw_study, "overall_status"),
     drugs |-> PyList(<<>>),
     conditions |-> PyList(<<>>),
     sponsors |-> PyList(<<>>)]

_init_study(raw_study) ==
    [nct_id |-> Get(raw_study, "nct_id"),
     title |-> PyStr(Strip(PyOr(Get(raw_study, "brief_title"), PyStr(<<>>)).val)),
     phase |-> Get(raw_study, "phase"),
     status |-> Get(raw_study, "overall_status"),
     drugs |-> PyList(<<>>),
     conditions |-> PyList(<<>>),
     sponsors |-> PyList(<<>>)]

\* `raw and isinstance(raw, list)`
NonEmptyList(raw) == Truthy(raw) /\ IsList(raw)

\* drug.get('description') or ""
drug_description(drug) == PyOr(Get(drug, "description"), PyStr(<<>>))

\* A drug entry built without its dosage_form.
add_drug_without_form(drugs, drug) ==
    LET raw_name == Get(drug, "name")
    IN  IF ~Truthy(raw_name) THEN drugs
        ELSE Append(drugs, [name |-> PyStr(Title(Strip(raw_name.val))),
                            route |-> infer_route_and_form(
                                          PyOr(Get(drug, "description"), PyStr(<<>>))).route])

\* One pass of the loop over raw_drugs: the drugs list after the entry.
add_drug(drugs, drug) ==
    LET raw_name == Get(drug, "name")
    IN  IF ~Truthy(raw_name) THEN drugs
        ELSE LET name == PyStr(Title(Strip(raw_name.val)))
                 inferred == infer_route_and_form(drug_description(drug))
             IN  Append(drugs, [name |-> name,
                                route |-> inferred.route,
                                dosage_form |-> inferred.dosage_form])

RECURSIVE add_each_drug(_, _)
add_each_drug(drugs, raw_drugs) ==
    IF raw_drugs = <<>> THEN drugs
    ELSE add_each_drug(add_drug(drugs, Head(raw_drugs)), Tail(raw_drugs))

_add_drugs(study, raw_drugs) ==
    IF ~NonEmptyList(raw_drugs) THEN study
    ELSE [study EXCEPT !.drugs = PyList(add_each_drug(study.drugs.val, raw_drugs.val))]

\* A condition that is trimmed and keeps its casing.
clean_condition_keeping_case(c) == Strip(c.val)

\* c.strip().title()
clean_condition(c) == Title(Strip(c.val))

\* The set comprehension {c.strip().title() for c in raw_conditions if c}.
clean_conds(raw_conditions) ==
    IF ~NonEmptyList(raw_conditions) THEN {}
    ELSE {clean_condition(raw_conditions.val[i]) :
             i \in {j \in DOMAIN raw_conditions.val : Truthy(raw_conditions.val[j])}}

\* set_order is the order in which the list comprehension iterates the set.
_add_conditions(study, raw_conditions, set_order) ==
    IF ~NonEmptyList(raw_conditions) THEN study
    ELSE [study EXCEPT !.conditions =
            PyList([i \in DOMAIN set_order |-> [name |-> PyStr(set_order[i])]])]

\* One pass of the loop over raw_sponsors: the sponsors list after the entry.
add_sponsor(sponsors, sponsor) ==
    LET raw_name == Get(sponsor, "name")
    IN  IF ~Truthy(raw_name) THEN sponsors
        ELSE Append(sponsors, [name |-> PyStr(Strip(raw_name.val)),
                               class |-> Get(sponsor, "class")])

RECURSIVE add_each_sponsor(_, _)
add_each_sponsor(sponsors, raw_sponsors) ==
    IF raw_sponsors = <<>> THEN sponsors
    ELSE add_each_sponsor(add_sponsor(sponsors, Head(raw_sponsors)), Tail(raw_sponsors))

_add_sponsors(study, raw_sponsors) ==
    IF ~NonEmptyList(raw_sponsors) THEN study
    ELSE [study EXCEPT !.sponsors =
            PyList(add_each_sponsor(study.sponsors.val, raw_sponsors.val))]

\* The orders in which clean_study may iterate the set of conditions.
SetOrders(raw_study) == Iterations(clean_conds(Get(raw_study, "conditions")))

clean_study(raw_study, set_order) ==
    _add_sponsors(
        _add_conditions(
            _add_drugs(_init_study(raw_study), Get(raw_study, "drugs")),
            Get(raw_study, "conditions"), set_order),
        Get(raw_study, "sponsors"))

\* Every record clean_study may return for the raw study.
CleanOutcomes(raw_study) ==
    {clean_study(raw_study, set_order) : set_order \in SetOrders(raw_study)}

\* ------------------------------------------------------------------------
\* The raw studies the cleaner is applied to.
\* ------------------------------------------------------------------------
OptStrings(n) == {PyNone} \cup {PyStr(s) : s \in StringsUpTo(n)}
Descriptions == {Absent, PyNone, PyStr(<<>>), PyStr(<<"a">>)}
Classes == {Absent, PyNone, PyTok("INDUSTRY")}

DrugEntries ==
    {Dict([name |-> n, description |-> d]) :
        n \in {Absent} \cup OptStrings(MaxNameLen), d \in Descriptions}
ConditionEntries == OptStrings(MaxStrLen)
SponsorEntries ==
    {Dict([name |-> n, class |-> c]) :
        n \in {Absent} \cup OptStrings(MaxNameLen), c \in Classes}

OptLists(S) == {Absent, PyNone} \cup {PyList(l) : l \in ListsUpTo(S, MaxEntries)}

RawStudy(nct_id, brief_title, phase, status, drugs, conditions, sponsors) ==
    Dict([nct_id |-> nct_id, brief_title |-> brief_title, phase |-> phase,
          overall_status |-> status, drugs |-> drugs, conditions |-> conditions,
          sponsors |-> sponsors])

\* Studies that vary the scalar fields.
ScalarStudies ==
    {RawStudy(n, t, p, s, Absent, Absent, Absent) :
        n \in {Absent, PyNone, PyTok("NCT1")},
        t \in {Absent} \cup OptStrings(MaxStrLen),
        p \in {Absent, PyTok("PHASE2")},
        s \in {PyNone, PyTok("RECRUITING")}}

\* Studies that vary one of the list fields.
ListFields == {"drugs", "conditions", "sponsors"}
EntriesOf(field) ==
    CASE field = "drugs" -> DrugEntries
      [] field = "conditions" -> ConditionEntries
      [] field = "sponsors" -> SponsorEntries
StudiesVarying(field) ==
    {Dict([[nct_id |-> PyTok("NCT1"), brief_title |-> PyStr(<<"a">>),
            phase |-> PyNone, overall_status |-> PyNone, drugs |-> Absent,
            conditions |-> Absent, sponsors |-> Absent] EXCEPT ![field] = l]) :
        l \in OptLists(EntriesOf(field))}

\* ------------------------------------------------------------------------
\* State.
\* ------------------------------------------------------------------------
VARIABLES
    \* clean_study: its argument and what it returned (None before the call).
    raw_study, study,
    \* batch_cleaned_trials: its arguments, its locals and where it stands.
    trials_stream,      \* the records the upstream sequence holds, in order
    pulled,             \* how many of them have been pulled from it
    batch_size, limit,
    batch, processed,
    pc,
    emitted,            \* the batches the consumer has been handed, in order
    \* The objects the generator works on: the heap maps the address of each
    \* dict and list to its content, batch_ref is the list `batch` is bound
    \* to, emitted_refs the lists the consumer has been handed.
    heap, batch_ref, emitted_refs,
    \* run_pipeline_dry_run: its locals, and the messages it has logged.
    count, processed_records, log,
    \* Neo4jClient: the graph the driver talks to, and how the last call of
    \* load_trials_batch ended ("none" before the first call).
    graph, load_status,
    \* For each trial and drug ever loaded together: the route and dosage_form
    \* the last committed load carried for them, and the last ones it carried
    \* that were not Unknown (None when there has been none).
    history,
    \* TextParser: the rule set it loaded, the text infer_route_and_form is
    \* given and what it returned (None before the call).
    rule_set, text, inferred,
    \* AACTClient.fetch_trials, a generator, and its consumer.
    result_len,         \* the number of rows the query returns (row i is i)
    postgres_fetch_size,
    conn,               \* "none" before the connection is made, "open", "closed"
    gen_pc,             \* "created", "suspended" (at the yield), "returned",
                        \* "raised", "closed" (ended at the yield)
    rows, row_pos,      \* the page, and how many of its rows have been yielded
    cursor_pos,         \* the rows the cursor has given out
    fetch_count,        \* the calls of fetchmany that returned
    yielded_rows,       \* the rows the consumer has been given, in order
    consumer,           \* "iterating", "stopped" (left its loop), "ended"
    \* Neo4jClient.ensure_graph_schema: the constraints and indexes of the
    \* database, by name, and of its last call the statements that logged a
    \* warning, the number of statements it ran and how it ended.
    schema, schema_warned, statements_run, schema_status,
    \* load_trials_to_neo4j: its argument, the batches its loop has passed,
    \* where it stands, and its calls of load_trials_batch with their outcome.
    clean_batches, batch_pos, run_pc, load_calls

cleanerVars == <<raw_study, study>>
batcherVars ==
    <<trials_stream, pulled, batch_size, limit, batch, processed, pc, emitted,
      heap, batch_ref, emitted_refs>>
dryRunVars == <<count, processed_records, log>>
sinkVars == <<graph, load_status, history>>
inferVars == <<rule_set, text, inferred>>
sourceVars ==
    <<result_len, postgres_fetch_size, conn, gen_pc, rows, row_pos, cursor_pos,
      fetch_count, yielded_rows, consumer>>
\* The variables of the first four parts, and of the parts modelled after
\* them.
coreVars == <<cleanerVars, batcherVars, dryRunVars, sinkVars>>
schemaVars == <<schema, schema_warned, statements_run, schema_status>>
loaderVars == <<clean_batches, batch_pos, run_pc, load_calls>>
otherVars == <<inferVars, sourceVars, schemaVars, loaderVars>>
vars == <<coreVars, otherVars>>

\* The values the variables of a part keep while another part runs.
CleanerIdle == raw_study = PyNone /\ study = PyNone
\* The address of an object: the call that created it and the place in the
\* code that did.
Addr(owner, part, n) == [owner |-> owner, part |-> part, n |-> n]
NoAddr == Addr("none", "none", 0)
PyRef(a) == [type |-> "ref", addr |-> a]
IsRef(x) == x.type = "ref"
EmptyHeap == <<>>
ObjectsIdle == heap = EmptyHeap /\ batch_ref = NoAddr /\ emitted_refs = <<>>
BatcherIdle ==
    /\ trials_stream = <<>> /\ pulled = 0 /\ batch_size = 1 /\ limit = 0
    /\ batch = <<>> /\ processed = 0 /\ pc = "idle" /\ emitted = <<>>
    /\ ObjectsIdle
DryRunIdle == count = 0 /\ processed_records = <<>> /\ log = <<>>
EmptyGraph ==
    [trial_nodes |-> <<>>, drug_nodes |-> {}, condition_nodes |-> {},
     organization_nodes |-> {}, studied_in |-> <<>>, studies_condition |-> {},
     sponsored_by |-> {}]
SinkIdle == graph = EmptyGraph /\ load_status = "none" /\ history = <<>>
InferIdle == rule_set = <<>> /\ text = PyNone /\ inferred = PyNone
SourceIdle ==
    /\ result_len = 0 /\ postgres_fetch_size = 1 /\ conn = "none"
    /\ gen_pc = "idle" /\ rows = <<>> /\ row_pos = 0 /\ cursor_pos = 0
    /\ fetch_count = 0 /\ yielded_rows = <<>> /\ consumer = "idle"
CoreIdle == CleanerIdle /\ BatcherIdle /\ DryRunIdle /\ SinkIdle
SchemaIdle ==
    /\ schema = {} /\ schema_warned = {} /\ statements_run = 0
    /\ schema_status = "none"
LoaderIdle ==
    /\ clean_batches = <<>> /\ batch_pos = 0 /\ run_pc = "idle"
    /\ load_calls = <<>>
OthersIdle == InferIdle /\ SourceIdle /\ SchemaIdle /\ LoaderIdle

\* ------------------------------------------------------------------------
\* SpecCleaner: clean_study on every raw study drawn in InitCleaner.
\* ------------------------------------------------------------------------
InitCleaner ==
    /\ \/ raw_study \in ScalarStudies
       \/ \E field \in ListFields : raw_study \in StudiesVarying(field)
    /\ study = PyNone
    /\ BatcherIdle /\ DryRunIdle /\ SinkIdle /\ OthersIdle

CleanStudy ==
    /\ raw_study # PyNone
    /\ study = PyNone
    /\ \E set_order \in SetOrders(raw_study) :
          study' = clean_study(raw_study, set_order)
    /\ UNCHANGED <<raw_study, batcherVars, dryRunVars, sinkVars, otherVars>>

NextCleaner == CleanStudy

SpecCleaner == InitCleaner /\ [][NextCleaner]_vars

\* ------------------------------------------------------------------------
\* batch_cleaned_trials (src/transform/data_cleaner.py, 77-96), a generator:
\* it runs when its consumer asks for the next batch and is suspended at a
\* yield until the consumer asks again.
\* ------------------------------------------------------------------------
\* The raw trials of the upstream sequence.
StreamTrials ==
    {RawStudy(PyTok("NCT1"), PyStr(<<" ", "a">>), PyNone, PyNone, Absent, Absent, Absent),
     RawStudy(PyTok("NCT2"), PyNone, PyNone, PyNone, Absent,
              PyList(<<PyStr(<<"a">>), PyStr(<<"a", "a">>)>>), Absent)}

BatchSizes == -1..MaxBatchSize
Limits == -1..MaxLimit

\* A cutoff that breaks one record early.
LimitReachedEarly(p, l) == p >= l

\* `if processed > limit: break`
LimitReached(p, l) == p > l

\* A size test that lets the batch grow one record too long.
BatchFullLate(b, size) == Len(b) > size

\* `if len(batch) >= batch_size`
BatchFull(b, size) == Len(b) >= size

\* An insert at the front of the batch.
AppendCleanFront(b, clean_trial) == <<clean_trial>> \o b

\* batch.append(clean_trial)
AppendClean(b, clean_trial) == Append(b, clean_trial)

\* The objects of the upstream sequence: the dict of each raw trial and the
\* lists it holds.
RawObjects(stream) ==
    [a \in {Addr("raw", "dict", i) : i \in DOMAIN stream}
            \cup UNION {{Addr("raw", f, i) :
                            f \in {g \in DOMAIN stream[i] : IsList(stream[i][g])}} :
                        i \in DOMAIN stream} |->
        IF a.part = "dict"
        THEN [f \in DOMAIN stream[a.n] |->
                 IF IsList(stream[a.n][f]) THEN PyRef(Addr("raw", f, a.n))
                 ELSE stream[a.n][f]]
        ELSE stream[a.n][a.part]]

\* The dict at the address, each list it refers to read through.
RecordValue(h, a) ==
    [f \in DOMAIN h[a] |-> IF IsRef(h[a][f]) THEN h[h[a][f].addr] ELSE h[a][f]]

\* The k-th call of clean_study, on the raw dict at raw_addr: the dict and
\* the three lists of _init_study, and the list _add_conditions binds to
\* study['conditions'] in place of the first when there are raw conditions.
CleanStudyObjects(h, raw_addr, k, set_order) ==
    LET raw == RecordValue(h, raw_addr)
        clean == clean_study(raw, set_order)
        rebound == NonEmptyList(Get(raw, "conditions"))
        conditions_addr ==
            IF rebound THEN Addr("clean", "conditions", k)
            ELSE Addr("clean", "conditions_init", k)
    IN  (Addr("clean", "dict", k) :>
            [clean EXCEPT !.drugs = PyRef(Addr("clean", "drugs", k)),
                          !.conditions = PyRef(conditions_addr),
                          !.sponsors = PyRef(Addr("clean", "sponsors", k))])
        @@ (Addr("clean", "drugs", k) :> clean.drugs)
        @@ (Addr("clean", "sponsors", k) :> clean.sponsors)
        @@ (conditions_addr :> clean.conditions)
        @@ (Addr("clean", "conditions_init", k) :> PyList(<<>>))
        @@ h

\* The accumulator emptied in place: batch.clear()
ClearedAccumulator(h, ref, n) ==
    [heap |-> [h EXCEPT ![ref] = PyList(<<>>)], ref |-> ref]

\* `batch = []` after the n-th yield (n >= 1): a new list, bound to batch.
NewAccumulator(h, ref, n) ==
    [heap |-> (Addr("batch", "list", n) :> PyList(<<>>)) @@ h,
     ref |-> Addr("batch", "list", n)]

InitBatcher ==
    /\ trials_stream \in ListsUpTo(StreamTrials, MaxStreamLen)
    /\ heap = (Addr("batch", "list", 0) :> PyList(<<>>)) @@ RawObjects(trials_stream)
    /\ batch_ref = Addr("batch", "list", 0)
    /\ emitted_refs = <<>>
    /\ batch_size \in BatchSizes
    /\ limit \in Limits
    /\ pulled = 0
    /\ batch = <<>>
    /\ processed = 0
    /\ pc = "created"
    /\ emitted = <<>>
    /\ CleanerIdle /\ DryRunIdle /\ SinkIdle /\ OthersIdle

\* The consumer asks for the next batch: the generator starts, or resumes
\* after the yield it is suspended at (`batch = []` after the one in the
\* loop, the end of the function after the final one).
ConsumerNext ==
    /\ pc \in {"created", "yielded", "final_yielded"}
    /\ pc' = IF pc = "final_yielded" THEN "done" ELSE "running"
    /\ batch' = IF pc = "yielded" THEN <<>> ELSE batch
    /\ IF pc = "yielded"
       THEN /\ heap' = NewAccumulator(heap, batch_ref, Len(emitted)).heap
            /\ batch_ref' = NewAccumulator(heap, batch_ref, Len(emitted)).ref
       ELSE UNCHANGED <<heap, batch_ref>>
    /\ UNCHANGED <<trials_stream, pulled, batch_size, limit, processed, emitted,
                   emitted_refs, cleanerVars, dryRunVars, sinkVars, otherVars>>

\* One pass of `for raw_trial in trials_stream` that is given a record.
PullAndProcess ==
    /\ pc = "running"
    /\ pulled < Len(trials_stream)
    /\ pulled' = pulled + 1
    /\ processed' = processed + 1
    /\ IF LimitReached(processed', limit)
       THEN /\ pc' = "after_loop"
            /\ UNCHANGED <<batch, emitted, heap, emitted_refs>>
       ELSE \E set_order \in SetOrders(trials_stream[pulled']) :
              LET clean_trial == clean_study(trials_stream[pulled'], set_order)
                  cleaned == CleanStudyObjects(heap, Addr("raw", "dict", pulled'),
                                               processed', set_order)
                  clean_ref == PyRef(Addr("clean", "dict", processed'))
              IN  /\ batch' = AppendClean(batch, clean_trial)
                  /\ heap' = [cleaned EXCEPT ![batch_ref] =
                                  PyList(AppendClean(@.val, clean_ref))]
                  /\ IF BatchFull(batch', batch_size)
                     THEN /\ pc' = "yielded"
                          /\ emitted' = Append(emitted, batch')
                          /\ emitted_refs' = Append(emitted_refs, batch_ref)
                     ELSE pc' = "running" /\ UNCHANGED <<emitted, emitted_refs>>
    /\ UNCHANGED <<trials_stream, batch_size, limit, batch_ref,
                   cleanerVars, dryRunVars, sinkVars, otherVars>>

\* The upstream sequence is exhausted: the loop ends.
StreamExhausted ==
    /\ pc = "running"
    /\ pulled = Len(trials_stream)
    /\ pc' = "after_loop"
    /\ UNCHANGED <<trials_stream, pulled, batch_size, limit, batch, processed,
                   emitted, heap, batch_ref, emitted_refs,
                   cleanerVars, dryRunVars, sinkVars, otherVars>>

\* `if batch: yield batch`, then the end of the function.
FinalBatch ==
    /\ pc = "after_loop"
    /\ IF batch # <<>>
       THEN /\ pc' = "final_yielded"
            /\ emitted' = Append(emitted, batch)
            /\ emitted_refs' = Append(emitted_refs, batch_ref)
       ELSE pc' = "done" /\ UNCHANGED <<emitted, emitted_refs>>
    /\ UNCHANGED <<trials_stream, pulled, batch_size, limit, batch, processed,
                   heap, batch_ref, cleanerVars, dryRunVars, sinkVars, otherVars>>

\* ------------------------------------------------------------------------
\* The loop of run_pipeline_dry_run (src/main.py, 38-53).
\* ------------------------------------------------------------------------
InitDryRun ==
    /\ trials_stream \in ListsUpTo(StreamTrials, MaxStreamLen)
    /\ limit \in 0..MaxLimit
    /\ batch_size = 1
    /\ pulled = 0
    /\ batch = <<>>
    /\ processed = 0
    /\ pc = "dry_loop"
    /\ emitted = <<>>
    /\ ObjectsIdle
    /\ count = 0
    /\ processed_records = <<>>
    /\ log = <<>>
    /\ CleanerIdle /\ SinkIdle /\ OthersIdle

\* `if count % 100 == 0`
ProgressEvery == 100

\* One pass of `for raw_trial in raw_trials` that is given a record.
DryRunStep ==
    /\ pc = "dry_loop"
    /\ pulled < Len(trials_stream)
    /\ pulled' = pulled + 1
    /\ count' = count + 1
    /\ IF LimitReached(count', limit)
       THEN pc' = "dry_output" /\ UNCHANGED <<processed_records, log>>
       ELSE /\ pc' = "dry_loop"
            /\ \E set_order \in SetOrders(trials_stream[pulled']) :
                  processed_records' =
                      Append(processed_records,
                             clean_study(trials_stream[pulled'], set_order))
            /\ log' = IF count' % ProgressEvery = 0
                      THEN Append(log, [event |-> "processed", count |-> count'])
                      ELSE log
    /\ UNCHANGED <<trials_stream, batch_size, limit, batch, processed, emitted,
                   heap, batch_ref, emitted_refs, cleanerVars, sinkVars, otherVars>>

DryRunExhausted ==
    /\ pc = "dry_loop"
    /\ pulled = Len(trials_stream)
    /\ pc' = "dry_output"
    /\ UNCHANGED <<trials_stream, pulled, batch_size, limit, batch, processed,
                   emitted, heap, batch_ref, emitted_refs,
                   cleanerVars, dryRunVars, sinkVars, otherVars>>

\* print(json.dumps(processed_records)): the run is over.
DryRunOutput ==
    /\ pc = "dry_output"
    /\ pc' = "dry_done"
    /\ log' = log \o <<[event |-> "outputting", count |-> Len(processed_records)],
                        [event |-> "completed"]>>
    /\ UNCHANGED <<trials_stream, pulled, batch_size, limit, batch, processed,
                   emitted, heap, batch_ref, emitted_refs, count, processed_records,
                   cleanerVars, sinkVars, otherVars>>

\* The source raises when the loop asks it for a record (the connection
\* cannot be made, the query or a fetch fails): `except Exception as e`
\* logs "Pipeline failed: {e}" and the run exits with status 1.
DryRunFails ==
    /\ pc = "dry_loop"
    /\ pc' = "dry_failed"
    /\ log' = Append(log, [event |-> "failed"])
    /\ UNCHANGED <<trials_stream, pulled, batch_size, limit, batch, processed,
                   emitted, heap, batch_ref, emitted_refs, count, processed_records,
                   cleanerVars, sinkVars, otherVars>>

NextBatcher ==
    \/ ConsumerNext
    \/ PullAndProcess
    \/ StreamExhausted
    \/ FinalBatch
    \/ DryRunStep
    \/ DryRunExhausted
    \/ DryRunOutput
    \/ DryRunFails

SpecBatcher == (InitBatcher \/ InitDryRun) /\ [][NextBatcher]_vars

\* ------------------------------------------------------------------------
\* Properties of the batcher and the dry-run loop.
\* ------------------------------------------------------------------------
Min(a, b) == IF a <= b THEN a ELSE b
Max(a, b) == IF a >= b THEN a ELSE b
CeilDiv(a, b) == (a + b - 1) \div b

RECURSIVE Flatten(_)
Flatten(batches) ==
    IF batches = <<>> THEN <<>> ELSE Head(batches) \o Flatten(Tail(batches))

InBatcher ==
    pc \in {"created", "running", "yielded", "after_loop", "final_yielded", "done"}
InDryRun == pc \in {"dry_loop", "dry_output", "dry_done", "dry_failed"}
ValidArgs == batch_size >= 1 /\ limit >= 0
\* The number of raw records the run is to clean: min(limit, N).
Wanted == Min(limit, Len(trials_stream))

\* C1: for batch_size >= 1 and limit >= 0 the batches emitted so far never
\* hold more than limit cleaned records, and once the generator has finished
\* they hold exactly min(limit, N) of them.
C1_TotalEmitted ==
    (InBatcher /\ ValidArgs) =>
        /\ Len(Flatten(emitted)) <= limit
        /\ pc = "done" => Len(Flatten(emitted)) = Wanted

\* A finished run that was cut off by the limit after several batches.
C1_Witness ==
    /\ pc = "done" /\ ValidArgs
    /\ Len(trials_stream) > limit
    /\ Len(emitted) >= 2
    /\ Len(Flatten(emitted)) = limit

\* C2: the number of raw records pulled from the upstream sequence never
\* exceeds limit, in the batcher and in the dry-run loop.
C2_PulledWithinLimit ==
    ((InBatcher \/ InDryRun) /\ limit >= 0) => pulled <= limit

\* C3: for batch_size >= 1 and limit >= 0 no emitted batch is empty, and the
\* finished generator has emitted ceil(min(N, limit) / batch_size) batches,
\* all of size batch_size but the last, whose size is the remainder of
\* min(N, limit) by batch_size, or batch_size when that is 0.
C3_BatchShape ==
    (InBatcher /\ ValidArgs) =>
        /\ \A i \in DOMAIN emitted : emitted[i] # <<>>
        /\ pc = "done" =>
            /\ Len(emitted) = CeilDiv(Wanted, batch_size)
            /\ \A i \in 1..(Len(emitted) - 1) : Len(emitted[i]) = batch_size
            /\ emitted # <<>> =>
                  Len(emitted[Len(emitted)]) =
                      IF Wanted % batch_size = 0 THEN batch_size
                      ELSE Wanted % batch_size

\* A finished run whose last batch is a partial one after a full one.
C3_Witness ==
    /\ pc = "done" /\ ValidArgs
    /\ batch_size >= 2
    /\ Len(emitted) >= 2
    /\ Len(emitted[Len(emitted)]) < batch_size

\* C4: the emitted batches, concatenated in the order of their emission, are
\* the cleaned forms of the first records of the upstream sequence, one each
\* and in the order they were pulled; with the accumulator they account for
\* every record pulled within the limit.
C4_OrderPreserved ==
    InBatcher =>
        LET flat == Flatten(emitted)
            held == IF pc \in {"running", "after_loop"} THEN Len(batch) ELSE 0
        IN  /\ Len(flat) + held = Min(pulled, Max(limit, 0))
            /\ \A i \in DOMAIN flat : flat[i] \in CleanOutcomes(trials_stream[i])

\* A finished run that emitted a batch of two different records and another
\* batch after it.
C4_Witness ==
    /\ pc = "done"
    /\ Len(emitted) >= 2
    /\ Len(emitted[1]) >= 2
    /\ emitted[1][1] # emitted[1][2]

\* C5: for batch_size >= 1 the generator is suspended with the k-th full
\* batch exactly when k * batch_size records have been pulled, it never runs
\* on holding a full batch, and while it is suspended (or not yet started)
\* no record is pulled.
C5_Backpressure ==
    [][ /\ (pc' = "yielded" /\ batch_size >= 1) =>
            /\ pulled' = Len(emitted') * batch_size
            /\ Len(emitted'[Len(emitted')]) = batch_size
        /\ (pc' = "running" /\ batch_size >= 1) => Len(batch') < batch_size
        /\ pc \in {"created", "yielded", "final_yielded"} => pulled' = pulled
      ]_vars

\* The generator suspended with its second full batch while records remain
\* upstream and within the limit.
C5_Witness ==
    /\ pc = "yielded"
    /\ batch_size >= 2
    /\ Len(emitted) = 2
    /\ pulled < Len(trials_stream)
    /\ pulled < limit

\* C6: with batch_size <= 0 or limit < 0 the batcher pulls no record, cleans
\* none and emits no batch.
C6_RejectedAtEntry ==
    (InBatcher /\ (batch_size <= 0 \/ limit < 0)) =>
        /\ pulled = 0
        /\ batch = <<>>
        /\ emitted = <<>>

\* The list of records at the address, each record read through.
BatchValue(h, a) ==
    [i \in DOMAIN h[a].val |-> RecordValue(h, h[a].val[i].addr)]

\* The dicts clean_study has returned, and the lists a dict refers to.
CleanDicts == {a \in DOMAIN heap : a.owner = "clean" /\ a.part = "dict"}
ListsOf(a) == {heap[a][f].addr : f \in ListFields \cap DOMAIN heap[a]}
RawDicts == {a \in DOMAIN heap : a.owner = "raw" /\ a.part = "dict"}

\* C12: every raw record reads as it did before the run; the records
\* clean_study has returned have three lists each, shared neither with one
\* another nor with a raw record; every batch the consumer was handed, and
\* every record in it, still reads as it did when it was handed over; and
\* the list the running generator accumulates into is none of them.
C12_FreshAndUnshared ==
    InBatcher =>
        /\ \A i \in DOMAIN trials_stream :
              RecordValue(heap, Addr("raw", "dict", i)) = trials_stream[i]
        /\ \A a \in CleanDicts :
              /\ Cardinality(ListsOf(a)) = 3
              /\ \A b \in (CleanDicts \cup RawDicts) \ {a} :
                    ListsOf(a) \cap ListsOf(b) = {}
        /\ Len(emitted_refs) = Len(emitted)
        /\ \A i \in DOMAIN emitted_refs :
              /\ BatchValue(heap, emitted_refs[i]) = emitted[i]
              /\ \A j \in DOMAIN emitted_refs : i # j => emitted_refs[i] # emitted_refs[j]
        /\ pc \in {"running", "after_loop"} =>
              \A i \in DOMAIN emitted_refs : emitted_refs[i] # batch_ref

\* The generator accumulating into a new list after a batch of two records,
\* one of them with conditions, was handed over.
C12_Witness ==
    /\ pc = "running"
    /\ Len(emitted_refs) >= 1
    /\ Len(heap[emitted_refs[1]].val) = 2
    /\ \E i \in 1..2 : emitted[1][i].conditions.val # <<>>
    /\ heap[batch_ref].val # <<>>

\* C16: a dry run that ended on a failure after cleaning k records has
\* logged a message that carries the count k.
C16_FailureReportsCount ==
    pc = "dry_failed" =>
        \E i \in DOMAIN log :
            /\ "count" \in DOMAIN log[i]
            /\ log[i].count = Len(processed_records)

\* ------------------------------------------------------------------------
\* Properties of clean_study.
\* ------------------------------------------------------------------------
Cleaned == study # PyNone
Range(seq) == {seq[i] : i \in DOMAIN seq}

\* The entries of a raw list field (none when the field is absent or null).
RawEntries(field) ==
    IF NonEmptyList(Get(raw_study, field)) THEN Get(raw_study, field).val ELSE <<>>

\* The entry has a name that is neither missing, null nor empty.
HasName(entry) ==
    /\ "name" \in DOMAIN entry
    /\ ~IsNone(entry["name"])
    /\ entry["name"].val # <<>>
Named(field) == SelectSeq(RawEntries(field), HasName)

\* The string without its leading and trailing whitespace, in lower case.
Folded(s) == LowerStr(Strip(s))

\* C8: clean_study emits one drug and one sponsor entry for each raw entry
\* that has a name, in the order of the input, and no emitted entry has a
\* null or empty name.
C8_NamelessDropped ==
    Cleaned =>
        /\ Len(study.drugs.val) = Len(Named("drugs"))
        /\ Len(study.sponsors.val) = Len(Named("sponsors"))
        /\ \A i \in DOMAIN study.drugs.val :
              /\ Folded(study.drugs.val[i].name.val) = Folded(Named("drugs")[i]["name"].val)
              /\ ~IsNone(study.drugs.val[i].name)
              /\ study.drugs.val[i].name.val # <<>>
        /\ \A i \in DOMAIN study.sponsors.val :
              /\ Folded(study.sponsors.val[i].name.val) = Folded(Named("sponsors")[i]["name"].val)
              /\ ~IsNone(study.sponsors.val[i].name)
              /\ study.sponsors.val[i].name.val # <<>>

\* The non-empty entries of the raw conditions.
GivenConditions ==
    {c \in Range(RawEntries("conditions")) : ~IsNone(c) /\ c.val # <<>>}

\* The string has no whitespace at either end.
IsTrimmed(s) == s = <<>> \/ (~IsSpace(s[1]) /\ ~IsSpace(s[Len(s)]))

\* Each letter is upper case at the start of a word and lower case inside it.
IsTitleCase(s) ==
    \A i \in DOMAIN s :
        IsCased(s[i]) =>
            IF i > 1 /\ IsCased(s[i - 1]) THEN s[i] = "a" ELSE s[i] = "A"

\* C9: no two emitted condition names are equal ignoring case; every emitted
\* name is trimmed, in title case and equal, ignoring case and surrounding
\* whitespace, to a non-empty input entry; and every non-empty input entry
\* is so represented by exactly one emitted entry.
C9_ConditionsDeduplicated ==
    Cleaned =>
        LET out == study.conditions.val
        IN  /\ \A i, j \in DOMAIN out :
                  i # j => LowerStr(out[i].name.val) # LowerStr(out[j].name.val)
            /\ \A i \in DOMAIN out :
                  /\ IsTrimmed(out[i].name.val)
                  /\ IsTitleCase(out[i].name.val)
                  /\ \E c \in GivenConditions :
                        LowerStr(out[i].name.val) = Folded(c.val)
            /\ \A c \in GivenConditions :
                  Cardinality({i \in DOMAIN out :
                      LowerStr(out[i].name.val) = Folded(c.val)}) = 1

\* Two conditions that differ only in case, cleaned to a single entry.
C9_Witness ==
    /\ Cleaned
    /\ Len(RawEntries("conditions")) = 2
    /\ Cardinality(GivenConditions) = 2
    /\ Len(study.conditions.val) = 1
    /\ study.conditions.val[1].name.val # <<>>

\* The description of the entry is missing, null or empty.
NoDescription(entry) ==
    \/ "description" \notin DOMAIN entry
    \/ IsNone(entry["description"])
    \/ entry["description"].val = <<>>

\* C10: every emitted drug entry has a route and a dosage_form, neither of
\* them null, and both are Unknown when the description of the raw entry it
\* comes from is missing, null or empty.
C10_RouteAndFormPresent ==
    Cleaned =>
        /\ Len(study.drugs.val) = Len(Named("drugs"))
        /\ \A i \in DOMAIN study.drugs.val :
              LET d == study.drugs.val[i]
              IN  /\ {"route", "dosage_form"} \subseteq DOMAIN d
                  /\ ~IsNone(d["route"]) /\ ~IsNone(d["dosage_form"])
                  /\ NoDescription(Named("drugs")[i]) =>
                        d["route"] = Unknown /\ d["dosage_form"] = Unknown

\* A drug without description emitted as Unknown beside a drug whose
\* description gave a route.
C10_Witness ==
    /\ Cleaned
    /\ Len(study.drugs.val) = 2
    /\ NoDescription(Named("drugs")[1])
    /\ study.drugs.val[1].route = Unknown
    /\ study.drugs.val[2].route = PyTok("Oral")

\* The field of the raw study is missing or null.
AbsentOrNull(field) == IsNone(Get(raw_study, field))

\* C11: clean_study returns for every raw study, whichever of its fields are
\* missing or null (and whichever name, description or class is missing or
\* null inside an entry); the record it returns has exactly the keys nct_id,
\* title, phase, status, drugs, conditions and sponsors, its title is a
\* string, and its drugs, conditions and sponsors are lists, empty when the
\* raw field is missing or null.  CleanStudy is enabled on a raw study when
\* its condition set has an iteration order to be emitted in.
C11_CleanStudyTotal ==
    /\ (raw_study # PyNone /\ study = PyNone) => SetOrders(raw_study) # {}
    /\ Cleaned =>
          /\ DOMAIN study = {"nct_id", "title", "phase", "status",
                              "drugs", "conditions", "sponsors"}
          /\ study.title.type = "str"
          /\ \A field \in ListFields :
                /\ IsList(study[field])
                /\ AbsentOrNull(field) => study[field].val = <<>>

\* A raw study without nct_id, brief_title and list fields, cleaned to a
\* record with an empty title and empty lists.
C11_Witness ==
    /\ Cleaned
    /\ DOMAIN raw_study \cap {"nct_id", "brief_title", "drugs", "conditions", "sponsors"} = {}
    /\ study.title = PyStr(<<>>)
    /\ study.drugs = PyList(<<>>)

\* ------------------------------------------------------------------------
\* Neo4jClient.load_trials_batch (src/db/neo4j_client.py, 55-97).  The graph
\* holds its nodes by merge key and its relationships by end points (and, for
\* SPONSORED_BY, the class they were merged on); a property that is not set
\* reads None.  The statement runs in one auto-commit transaction: it takes
\* effect as a whole or, when it raises, not at all.  t.last_updated, a
\* timestamp, is left out.
\* ------------------------------------------------------------------------
\* A SET guarded by a test that is always true.
PropertyAlwaysSet(value) == TRUE

\* `d.route <> 'Unknown'` (a comparison with null is not true)
PropertyKnown(value) == ~IsNone(value) /\ value # Unknown

NoProperties == [route |-> PyNone, dosage_form |-> PyNone]

\* MERGE (drug:Drug {name: d.name}) MERGE (t)-[r:STUDIED_IN]->(drug) and the
\* two guarded SETs.
MergeDrug(g, nct_id, d) ==
    LET key == <<nct_id, d.name>>
        r == IF key \in DOMAIN g.studied_in THEN g.studied_in[key] ELSE NoProperties
        set == [route |-> IF PropertyKnown(d.route) THEN d.route ELSE r.route,
                dosage_form |-> IF PropertyKnown(d.dosage_form)
                                THEN d.dosage_form ELSE r.dosage_form]
    IN  [g EXCEPT !.drug_nodes = @ \cup {d.name},
                  !.studied_in = (key :> set) @@ @]

RECURSIVE MergeDrugs(_, _, _)
MergeDrugs(g, nct_id, drugs) ==
    IF drugs = <<>> THEN g
    ELSE MergeDrugs(MergeDrug(g, nct_id, Head(drugs)), nct_id, Tail(drugs))

\* MERGE (cond:Condition {name: c.name}) MERGE (t)-[:STUDIES_CONDITION]->(cond)
MergeConditions(g, nct_id, conditions) ==
    [g EXCEPT !.condition_nodes = @ \cup {c.name : c \in {conditions[i] : i \in DOMAIN conditions}},
              !.studies_condition =
                  @ \cup {<<nct_id, c.name>> : c \in {conditions[i] : i \in DOMAIN conditions}}]

\* MERGE (org:Organization {name: s.name})
\* MERGE (t)-[:SPONSORED_BY {class: s.class}]->(org)
MergeSponsors(g, nct_id, sponsors) ==
    [g EXCEPT !.organization_nodes = @ \cup {x.name : x \in {sponsors[i] : i \in DOMAIN sponsors}},
              !.sponsored_by =
                  @ \cup {<<nct_id, x.name, x.class>> : x \in {sponsors[i] : i \in DOMAIN sponsors}}]

\* MERGE (t:Trial {nct_id: data.nct_id}) SET t.title = ..., t.phase = ...,
\* t.status = ...
MergeTrial(g, data) ==
    [g EXCEPT !.trial_nodes =
        (data.nct_id :> [title |-> data.title, phase |-> data.phase,
                         status |-> data.status]) @@ @]

\* The statement for one element of UNWIND $batch.
LoadTrial(g, data) ==
    MergeSponsors(
        MergeConditions(
            MergeDrugs(MergeTrial(g, data), data.nct_id, data.drugs.val),
            data.nct_id, data.conditions.val),
        data.nct_id, data.sponsors.val)

RECURSIVE LoadTrials(_, _)
LoadTrials(g, trials) ==
    IF trials = <<>> THEN g
    ELSE LoadTrials(LoadTrial(g, Head(trials)), Tail(trials))

\* MERGE raises on a null property value in its pattern.
NullMergeKey(data) ==
    \/ IsNone(data.nct_id)
    \/ \E i \in DOMAIN data.drugs.val : IsNone(data.drugs.val[i].name)
    \/ \E i \in DOMAIN data.conditions.val : IsNone(data.conditions.val[i].name)
    \/ \E i \in DOMAIN data.sponsors.val :
          IsNone(data.sponsors.val[i].name) \/ IsNone(data.sponsors.val[i].class)

\* The cleaned trials handed to the sink.
SinkTrial(nct_id, drugs, conditions, sponsors) ==
    [nct_id |-> nct_id, title |-> PyStr(<<"A">>), phase |-> PyTok("PHASE2"),
     status |-> PyNone, drugs |-> PyList(drugs), conditions |-> PyList(conditions),
     sponsors |-> PyList(sponsors)]
SinkDrugs ==
    {[name |-> PyStr(<<"A">>), route |-> r, dosage_form |-> f] :
        r \in RouteVocabulary, f \in DosageFormVocabulary}
SinkSponsors ==
    {[name |-> PyStr(<<"a">>), class |-> c] :
        c \in {PyTok("INDUSTRY"), PyTok("NIH"), PyNone}}
SinkTrials ==
    {SinkTrial(PyNone, <<>>, <<>>, <<>>)}
    \cup UNION {
        {SinkTrial(n, <<>>, <<>>, <<>>),
         SinkTrial(n, <<>>, <<[name |-> PyStr(<<"A">>)]>>, <<>>)}
        \cup {SinkTrial(n, <<d>>, <<>>, <<>>) : d \in SinkDrugs}
        \cup {SinkTrial(n, <<>>, <<>>, <<x>>) : x \in SinkSponsors}
        : n \in {PyTok("NCT1")}}

\* The (trial, drug, entry) triples of a batch, in the order they are loaded.
RECURSIVE Carried(_)
Carried(trials) ==
    IF trials = <<>> THEN <<>>
    ELSE [i \in DOMAIN Head(trials).drugs.val |->
             [key |-> <<Head(trials).nct_id, Head(trials).drugs.val[i].name>>,
              entry |-> Head(trials).drugs.val[i]]]
         \o Carried(Tail(trials))

\* The last value of the field among the entries at the positions, or the
\* value before.
LastOf(carried, positions, field, before) ==
    IF positions = {} THEN before
    ELSE carried[CHOOSE i \in positions : \A j \in positions : j <= i].entry[field]

NoHistory ==
    [known_route |-> PyNone, known_form |-> PyNone,
     last_route |-> PyNone, last_form |-> PyNone]

\* The history after a committed load of the batch.
Recorded(h, trials) ==
    LET carried == Carried(trials)
        keys == {carried[i].key : i \in DOMAIN carried}
        at(key) == {i \in DOMAIN carried : carried[i].key = key}
        before(key) == IF key \in DOMAIN h THEN h[key] ELSE NoHistory
    IN  [key \in keys |->
            [known_route |->
                LastOf(carried, {i \in at(key) : carried[i].entry.route # Unknown},
                       "route", before(key).known_route),
             known_form |->
                LastOf(carried, {i \in at(key) : carried[i].entry.dosage_form # Unknown},
                       "dosage_form", before(key).known_form),
             last_route |-> LastOf(carried, at(key), "route", PyNone),
             last_form |-> LastOf(carried, at(key), "dosage_form", PyNone)]]
        @@ h

InitSink ==
    /\ graph = EmptyGraph
    /\ load_status = "none"
    /\ history = <<>>
    /\ CleanerIdle /\ BatcherIdle /\ DryRunIdle /\ OthersIdle

\* load_trials_batch(batch): nothing for an empty batch; else the statement
\* is run and commits, or raises (a null merge key, or the database failing)
\* and changes nothing.
LoadBatch(trials) ==
    \/ /\ trials = <<>>
       /\ load_status' = "returned"
       /\ UNCHANGED <<graph, history>>
    \/ /\ trials # <<>>
       /\ \A i \in DOMAIN trials : ~NullMergeKey(trials[i])
       /\ graph' = LoadTrials(graph, trials)
       /\ history' = Recorded(history, trials)
       /\ load_status' = "loaded"
    \/ /\ trials # <<>>
       /\ load_status' = "raised"
       /\ UNCHANGED <<graph, history>>

\* Any caller, with any batch.
load_trials_batch ==
    \E trials \in ListsUpTo(SinkTrials, MaxLoadLen) :
        /\ LoadBatch(trials)
        /\ UNCHANGED <<cleanerVars, batcherVars, dryRunVars, otherVars>>

NextSink == load_trials_batch

SpecSink == InitSink /\ [][NextSink]_vars

\* ------------------------------------------------------------------------
\* Properties of the sink.
\* ------------------------------------------------------------------------
Known(value) == ~IsNone(value) /\ value # Unknown

\* C7: the route and the dosage_form persisted on a trial-to-drug
\* relationship are the last known (non-Unknown) ones ever loaded for that
\* trial and drug, whatever Unknown values were loaded after them; a known
\* persisted value stays known in every step.
C7_MonotonicEnrichment ==
    [][ /\ DOMAIN graph'.studied_in = DOMAIN history'
        /\ \A key \in DOMAIN history' :
              /\ graph'.studied_in[key].route = history'[key].known_route
              /\ graph'.studied_in[key].dosage_form = history'[key].known_form
        /\ \A key \in DOMAIN graph.studied_in :
              /\ key \in DOMAIN graph'.studied_in
              /\ Known(graph.studied_in[key].route) =>
                    Known(graph'.studied_in[key].route)
              /\ Known(graph.studied_in[key].dosage_form) =>
                    Known(graph'.studied_in[key].dosage_form)
      ]_vars

\* A relationship whose trial and drug were last loaded with route Unknown
\* and dosage_form Unknown and that keeps the known values loaded before.
C7_Witness ==
    \E key \in DOMAIN history :
        /\ history[key].last_route = Unknown
        /\ history[key].last_form = Unknown
        /\ graph.studied_in[key].route = PyTok("Oral")
        /\ graph.studied_in[key].dosage_form = PyTok("Tablet")

\* C19: the graph holds at most one node per merge key (its nodes are held
\* by nct_id and by name), and at most one STUDIED_IN, one STUDIES_CONDITION
\* and one SPONSORED_BY relationship between a trial and a drug, a condition
\* or an organization, whatever classes the sponsor was loaded with.
C19_OneRelationshipPerPair ==
    /\ \A key \in DOMAIN graph.studied_in :
          key[1] \in DOMAIN graph.trial_nodes /\ key[2] \in graph.drug_nodes
    /\ \A r \in graph.studies_condition :
          r[1] \in DOMAIN graph.trial_nodes /\ r[2] \in graph.condition_nodes
    /\ \A r1, r2 \in graph.sponsored_by :
          (r1[1] = r2[1] /\ r1[2] = r2[2]) => r1 = r2


\* ------------------------------------------------------------------------
\* SpecInfer: infer_route_and_form of a parser that loaded any rule set of
\* RuleSets, on any text of Texts.
\* ------------------------------------------------------------------------
MaxRules == 3        \* longest rule set

RulePatterns == {<<"a">>, <<"a", "a">>, <<" ">>}
Rules ==
    {[pattern |-> p, category |-> "route", value |-> v] :
        p \in RulePatterns, v \in RouteVocabulary \ {Unknown}}
    \cup {[pattern |-> p, category |-> "dosage_form", value |-> v] :
        p \in RulePatterns, v \in DosageFormVocabulary \ {Unknown}}
RuleSets == ListsUpTo(Rules, MaxRules)
Texts == OptStrings(MaxStrLen)

InitInfer ==
    /\ rule_set \in RuleSets
    /\ text \in Texts
    /\ inferred = PyNone
    /\ CoreIdle /\ SourceIdle /\ SchemaIdle /\ LoaderIdle

Infer ==
    /\ inferred = PyNone
    /\ inferred' = infer(rule_set, text)
    /\ UNCHANGED <<rule_set, text, coreVars, sourceVars, schemaVars, loaderVars>>

NextInfer == Infer

SpecInfer == InitInfer /\ [][NextInfer]_vars

\* ------------------------------------------------------------------------
\* Properties of the inference engine.
\* ------------------------------------------------------------------------
Inferred == inferred # PyNone
Blank == IsNone(text) \/ Strip(text.val) = <<>>

\* C13: infer_route_and_form returns for a null, an empty and a
\* whitespace-only text, and what it returns is route Unknown and
\* dosage_form Unknown, whatever the rules.
C13_UnknownOnBlank ==
    /\ (Blank /\ ~Inferred) => ENABLED Infer
    /\ (Blank /\ Inferred) => inferred = [route |-> Unknown, dosage_form |-> Unknown]

\* A whitespace-only text inferred as Unknown by a parser one of whose rules
\* has a pattern that occurs in it.
C13_Witness ==
    /\ Inferred
    /\ text = PyStr(<<" ", " ">>)
    /\ \E i \in DOMAIN rule_set : Matches(rule_set[i].pattern, text.val)
    /\ inferred.route = Unknown

\* The rules of the category, in the order of the rule set.
RulesOf(category) == SelectSeq(rule_set, LAMBDA r : r.category = category)

\* C14: for a text that is not blank, the value of each category is the
\* value of a rule of that category whose pattern occurs in the normalized
\* text and that no matching rule of the category precedes, and Unknown when
\* the category has no matching rule; it is the value the rules of that
\* category give on their own, whatever the rules of the other category.
C14_FirstMatchPerCategory ==
    (Inferred /\ ~Blank) =>
        \A category \in {"route", "dosage_form"} :
            LET normalized == LowerStr(text.val)
                matching == {i \in DOMAIN rule_set :
                                /\ rule_set[i].category = category
                                /\ Matches(rule_set[i].pattern, normalized)}
            IN  /\ matching = {} => inferred[category] = Unknown
                /\ matching # {} =>
                      \E i \in matching :
                          /\ inferred[category] = rule_set[i].value
                          /\ \A j \in matching : i <= j
                /\ inferred[category] = infer(RulesOf(category), text)[category]

\* Two route rules of different values around a dosage_form rule, all three
\* matching: the route is the value of the first rule and the dosage_form
\* the value of the second.
C14_Witness ==
    /\ Inferred /\ ~Blank
    /\ Len(rule_set) = 3
    /\ rule_set[1].category = "route" /\ rule_set[3].category = "route"
    /\ rule_set[2].category = "dosage_form"
    /\ rule_set[1].value # rule_set[3].value
    /\ \A i \in 1..3 : Matches(rule_set[i].pattern, LowerStr(text.val))
    /\ inferred.route = rule_set[1].value
    /\ inferred.dosage_form = rule_set[2].value


\* ------------------------------------------------------------------------
\* AACTClient.fetch_trials (src/extract/aact_client.py, 33-69), a generator.
\* A call of next() runs it from where it is suspended to its next yield or
\* to its end.  A generator that is left suspended is ended at its yield,
\* and its finally clause run, when its consumer drops it.
\* ------------------------------------------------------------------------
MaxRows == 5         \* most rows in the query result
MaxFetchSize == 3    \* largest postgres_fetch_size

\* cur.fetchmany(size): the next rows of the result, size of them at most.
fetchmany(pos, size, n) == [i \in 1..Min(size, n - pos) |-> pos + i]

\* A connection that is closed only when the loop has ended by itself.
ClosedOnReturn(c, how) == IF c = "open" /\ how = "return" THEN "closed" ELSE c

\* `finally: if conn: conn.close()`, however the body ended: by a return, an
\* exception or the generator being closed.
Finally(c, how) == IF c = "open" THEN "closed" ELSE c

\* A loop over the page that is left after its first row.
PageStarted(page, pos) == page = <<>> \/ pos >= 1

\* `for row in rows` has no row left.
PageConsumed(page, pos) == pos = Len(page)

InitSource ==
    /\ result_len \in 0..MaxRows
    /\ postgres_fetch_size \in 1..MaxFetchSize
    /\ conn = "none"
    /\ gen_pc = "created"
    /\ rows = <<>> /\ row_pos = 0 /\ cursor_pos = 0 /\ fetch_count = 0
    /\ yielded_rows = <<>>
    /\ consumer = "iterating"
    /\ CoreIdle /\ InferIdle /\ SchemaIdle /\ LoaderIdle

\* The while loop from the point where it needs a row, on an open
\* connection: the next row of the page is yielded, or the next page is
\* fetched and its first row yielded, or the loop ends on an empty page, or
\* fetchmany raises.
RunToYield(fetch_raises) ==
    IF ~PageConsumed(rows, row_pos)
    THEN /\ row_pos' = row_pos + 1
         /\ yielded_rows' = Append(yielded_rows, rows[row_pos + 1])
         /\ gen_pc' = "suspended"
         /\ conn' = "open"
         /\ UNCHANGED <<rows, cursor_pos, fetch_count>>
    ELSE IF fetch_raises
    THEN /\ gen_pc' = "raised"
         /\ conn' = Finally("open", "exception")
         /\ UNCHANGED <<rows, row_pos, cursor_pos, fetch_count, yielded_rows>>
    ELSE LET page == fetchmany(cursor_pos, postgres_fetch_size, result_len)
         IN  /\ rows' = page
             /\ cursor_pos' = cursor_pos + Len(page)
             /\ fetch_count' = fetch_count + 1
             /\ IF page = <<>>
                THEN /\ gen_pc' = "returned"
                     /\ conn' = Finally("open", "return")
                     /\ row_pos' = 0
                     /\ UNCHANGED yielded_rows
                ELSE /\ row_pos' = 1
                     /\ yielded_rows' = Append(yielded_rows, page[1])
                     /\ gen_pc' = "suspended"
                     /\ conn' = "open"

\* The first next(): the query file is read, the connection made and the
\* query executed, each of which may raise; then the loop runs.
FirstNext ==
    /\ consumer = "iterating"
    /\ gen_pc = "created"
    /\ \E outcome \in {"no_query_file", "connect_raises", "execute_raises", "executed"} :
          CASE outcome \in {"no_query_file", "connect_raises"} ->
                 /\ gen_pc' = "raised"
                 /\ UNCHANGED <<conn, rows, row_pos, cursor_pos, fetch_count, yielded_rows>>
            [] outcome = "execute_raises" ->
                 /\ gen_pc' = "raised"
                 /\ conn' = Finally("open", "exception")
                 /\ UNCHANGED <<rows, row_pos, cursor_pos, fetch_count, yielded_rows>>
            [] outcome = "executed" ->
                 \E fetch_raises \in BOOLEAN : RunToYield(fetch_raises)
    /\ UNCHANGED <<result_len, postgres_fetch_size, consumer, coreVars, inferVars, schemaVars, loaderVars>>

\* A later next(): the generator goes on after its yield.
ResumeNext ==
    /\ consumer = "iterating"
    /\ gen_pc = "suspended"
    /\ \E fetch_raises \in BOOLEAN : RunToYield(fetch_raises)
    /\ UNCHANGED <<result_len, postgres_fetch_size, consumer, coreVars, inferVars, schemaVars, loaderVars>>

\* The consumer leaves its loop before the generator has ended: its limit
\* is reached or something after the generator fails.
ConsumerStops ==
    /\ consumer = "iterating"
    /\ gen_pc \in {"created", "suspended"}
    /\ consumer' = "stopped"
    /\ UNCHANGED <<result_len, postgres_fetch_size, conn, gen_pc, rows, row_pos,
                   cursor_pos, fetch_count, yielded_rows, coreVars, inferVars, schemaVars, loaderVars>>

\* The consumer that left its loop ends and drops the generator: one that
\* is suspended is ended at its yield and its finally clause runs.
GeneratorDropped ==
    /\ consumer = "stopped"
    /\ consumer' = "ended"
    /\ gen_pc' = "closed"
    /\ conn' = IF gen_pc = "suspended" THEN Finally(conn, "close") ELSE conn
    /\ UNCHANGED <<result_len, postgres_fetch_size, rows, row_pos, cursor_pos,
                   fetch_count, yielded_rows, coreVars, inferVars, schemaVars, loaderVars>>

\* The consumer ends after the generator has: its loop is over, or the
\* exception of the generator ends it.
ConsumerEnds ==
    /\ consumer = "iterating"
    /\ gen_pc \in {"returned", "raised"}
    /\ consumer' = "ended"
    /\ UNCHANGED <<result_len, postgres_fetch_size, conn, gen_pc, rows, row_pos,
                   cursor_pos, fetch_count, yielded_rows, coreVars, inferVars, schemaVars, loaderVars>>

NextSource ==
    \/ FirstNext
    \/ ResumeNext
    \/ ConsumerStops
    \/ GeneratorDropped
    \/ ConsumerEnds

SpecSource == InitSource /\ [][NextSource]_vars

\* The consumer is a sequential program: it asks for the next row, leaves its
\* loop or ends, and the generator it resumes runs to its next yield.
SpecSourceFair == SpecSource /\ WF_vars(NextSource)

\* ------------------------------------------------------------------------
\* Properties of fetch_trials.
\* ------------------------------------------------------------------------
\* C15: a connection that is open is closed later, and no consumer has
\* ended while the connection was open: whether the result was exhausted,
\* the query or a fetch raised, or the consumer left its loop early.
C15_ConnectionClosed ==
    /\ [](conn = "open" => <>(conn = "closed"))
    /\ [](consumer = "ended" => conn # "open")

\* A consumer that left its loop with rows still to come, and ended with the
\* connection closed.
C15_Witness ==
    /\ consumer = "ended"
    /\ gen_pc = "closed"
    /\ yielded_rows # <<>>
    /\ Len(yielded_rows) < result_len
    /\ conn = "closed"

\* C20: for postgres_fetch_size >= 1 the rows yielded so far are the first
\* rows of the result, once each and in cursor order; no page is longer than
\* postgres_fetch_size; the rows fetched and not yet yielded are the rest of
\* the current page, and a page is fetched only when the page before has no
\* row left; a generator that has returned has yielded every row and made
\* one fetch per page and one more, which came back empty.
C20_LazyPages ==
    /\ [](gen_pc # "idle" =>
            /\ \A i \in DOMAIN yielded_rows : yielded_rows[i] = i
            /\ Len(yielded_rows) <= result_len
            /\ Len(rows) <= postgres_fetch_size
            /\ cursor_pos - Len(yielded_rows) = Len(rows) - row_pos
            /\ gen_pc = "returned" =>
                  /\ Len(yielded_rows) = result_len
                  /\ rows = <<>>
                  /\ fetch_count = CeilDiv(result_len, postgres_fetch_size) + 1)
    /\ [][fetch_count' # fetch_count => row_pos = Len(rows)]_vars

\* A result of several full pages read to its end.
C20_Witness ==
    /\ gen_pc = "returned"
    /\ postgres_fetch_size >= 2
    /\ result_len = 2 * postgres_fetch_size
    /\ fetch_count = 3

\* ------------------------------------------------------------------------
\* Neo4jClient.ensure_graph_schema.  The six statements, each named after
\* the constraint or index it creates IF NOT EXISTS.  A statement that runs
\* leaves its object in the schema, whether it was there or not; a statement
\* that fails (the database refuses it, the connection drops) leaves the
\* schema as it was.
\* ------------------------------------------------------------------------
queries ==
    <<[kind |-> "constraint", name |-> "trial_nct_id_unique"],
      [kind |-> "constraint", name |-> "drug_name_unique"],
      [kind |-> "constraint", name |-> "condition_name_unique"],
      [kind |-> "constraint", name |-> "org_name_unique"],
      [kind |-> "index", name |-> "trial_phase"],
      [kind |-> "index", name |-> "trial_status"]>>

\* session.run(query) went through.
Created(r, i) == [r EXCEPT !.schema = @ \cup {queries[i].name}]

\* A rendering of the except clause that lets the exception go.
RaisedOnFailure(r, i) == [r EXCEPT !.status = "raised"]
\* session.run(query) raised: the except clause logs a warning and the loop
\* goes on.
WarnedOnFailure(r, i) == [r EXCEPT !.warned = @ \cup {i}]

\* The loop over the statements from the i-th on, where the statements in
\* failing raise.
RECURSIVE run_queries(_, _, _)
run_queries(r, i, failing) ==
    IF r.status = "raised" THEN r
    ELSE IF i > Len(queries) THEN [r EXCEPT !.status = "returned"]
    ELSE LET ran == [r EXCEPT !.ran = @ + 1]
         IN  run_queries(IF i \in failing THEN WarnedOnFailure(ran, i)
                         ELSE Created(ran, i),
                         i + 1, failing)

\* The effect of one call on the schema.
EnsureSchema ==
    \E failing \in SUBSET DOMAIN queries :
        LET r == run_queries([schema |-> schema, warned |-> {}, ran |-> 0,
                              status |-> "running"], 1, failing)
        IN  /\ schema' = r.schema
            /\ schema_warned' = r.warned
            /\ statements_run' = r.ran
            /\ schema_status' = r.status

InitSchema ==
    /\ SchemaIdle
    /\ CoreIdle /\ InferIdle /\ SourceIdle /\ LoaderIdle

\* Any caller, any number of times.
ensure_graph_schema ==
    /\ run_pc = "idle"
    /\ EnsureSchema
    /\ UNCHANGED <<coreVars, inferVars, sourceVars, loaderVars>>

NextSchema == ensure_graph_schema

SpecSchema == InitSchema /\ [][NextSchema]_vars

FullSchema == {queries[i].name : i \in DOMAIN queries}

\* C18: a call of ensure_graph_schema runs every statement and returns,
\* whichever statements fail; it never removes a constraint or an index;
\* and a call in which no statement fails leaves the six objects, whatever
\* the schema was before, so that further calls leave what one call leaves.
C18_SchemaIdempotent ==
    /\ [](schema_status # "none" =>
            /\ schema_status = "returned"
            /\ statements_run = Len(queries)
            /\ schema \subseteq FullSchema
            /\ schema_warned = {} => schema = FullSchema)
    /\ [][schema \subseteq schema']_vars

\* A call whose first statement failed, made on a database that lacked the
\* constraint, ran and applied the last statement.
C18_Witness ==
    /\ schema_status = "returned"
    /\ 1 \in schema_warned
    /\ queries[1].name \notin schema
    /\ statements_run = Len(queries)
    /\ queries[Len(queries)].name \in schema

\* ------------------------------------------------------------------------
\* load_trials_to_neo4j (scripts/analyzes_entity_extraction_metrics.py):
\* it builds the client, ensures the schema, and loads the batches in
\* order, skipping an empty one.  It has no except clause: what
\* load_trials_batch raises leaves the function, and main logs it and
\* exits.  One action per step: the start, one turn of the loop, the
\* return.
\* ------------------------------------------------------------------------
MaxBatches == 3      \* longest sequence of clean batches

LoaderTrials ==
    {SinkTrial(PyNone, <<>>, <<>>, <<>>),
     SinkTrial(PyTok("NCT1"), <<>>, <<[name |-> PyStr(<<"A">>)]>>, <<>>),
     SinkTrial(PyTok("NCT1"), <<>>, <<>>,
               <<[name |-> PyStr(<<"a">>), class |-> PyTok("INDUSTRY")]>>)}
LoaderBatches == {<<>>} \cup {<<t>> : t \in LoaderTrials}

\* A rendering that swallows the exception and goes on with the next batch.
SkippedOnRaise(pos) == [run_pc |-> "loading", batch_pos |-> pos + 1]
\* load_trials_batch raised at the batch after pos: the exception leaves
\* the loop and the function.
PropagatedOnRaise(pos) == [run_pc |-> "aborted", batch_pos |-> pos]

InitLoader ==
    /\ clean_batches \in ListsUpTo(LoaderBatches, MaxBatches)
    /\ batch_pos = 0 /\ run_pc = "start" /\ load_calls = <<>>
    /\ SchemaIdle
    /\ CoreIdle /\ InferIdle /\ SourceIdle

\* Neo4jClient() and ensure_graph_schema(): the driver cannot be built and
\* the exception leaves the function, or the schema is ensured.
LoaderStart ==
    /\ run_pc = "start"
    /\ \/ /\ run_pc' = "aborted"
          /\ UNCHANGED schemaVars
       \/ /\ EnsureSchema
          /\ run_pc' = "loading"
    /\ UNCHANGED <<clean_batches, batch_pos, load_calls>>
    /\ UNCHANGED <<coreVars, inferVars, sourceVars>>

\* One turn of the for loop.
LoadNextBatch ==
    /\ run_pc = "loading"
    /\ batch_pos < Len(clean_batches)
    /\ LET clean_batch == clean_batches[batch_pos + 1]
       IN  IF clean_batch = <<>>
           THEN /\ batch_pos' = batch_pos + 1
                /\ UNCHANGED <<run_pc, load_calls, sinkVars>>
           ELSE /\ LoadBatch(clean_batch)
                /\ load_calls' = Append(load_calls,
                                        [batch |-> batch_pos + 1,
                                         outcome |-> load_status'])
                /\ IF load_status' = "raised"
                   THEN /\ run_pc' = PropagatedOnRaise(batch_pos).run_pc
                        /\ batch_pos' = PropagatedOnRaise(batch_pos).batch_pos
                   ELSE /\ batch_pos' = batch_pos + 1
                        /\ UNCHANGED run_pc
    /\ UNCHANGED clean_batches
    /\ UNCHANGED <<cleanerVars, batcherVars, dryRunVars, inferVars, sourceVars,
                   schemaVars>>

\* The loop is over: return neo4j.
LoaderReturns ==
    /\ run_pc = "loading"
    /\ batch_pos = Len(clean_batches)
    /\ run_pc' = "returned"
    /\ UNCHANGED <<clean_batches, batch_pos, load_calls>>
    /\ UNCHANGED <<coreVars, inferVars, sourceVars, schemaVars>>

NextLoader == LoaderStart \/ LoadNextBatch \/ LoaderReturns

SpecLoader == InitLoader /\ [][NextLoader]_vars

\* The batches of the calls that committed, in the order of the calls.
Loaded(call) == call.outcome = "loaded"
LoadedBatches ==
    LET calls == SelectSeq(load_calls, Loaded)
    IN  [i \in DOMAIN calls |-> clean_batches[calls[i].batch]]

\* C17: when a call of load_trials_batch raises, the run is aborted and that
\* call is the last: no batch is loaded after it and none is tried again;
\* the graph holds the batches loaded before it and nothing of the failed
\* batch.
C17_LoadFailureAborts ==
    /\ \A i \in DOMAIN load_calls :
          /\ load_calls[i].outcome = "raised" =>
                (i = Len(load_calls) /\ run_pc = "aborted")
          /\ \A j \in DOMAIN load_calls : i < j =>
                load_calls[i].batch < load_calls[j].batch
    /\ graph = LoadTrials(EmptyGraph, Flatten(LoadedBatches))

\* The second of three batches failed after the first was loaded: the run is
\* aborted, the graph holds the first batch, the third was never handed over.
C17_Witness ==
    /\ run_pc = "aborted"
    /\ Len(clean_batches) = 3
    /\ Len(load_calls) = 2
    /\ load_calls[1] = [batch |-> 1, outcome |-> "loaded"]
    /\ load_calls[2] = [batch |-> 2, outcome |-> "raised"]
    /\ ~NullMergeKey(clean_batches[2][1])
    /\ clean_batches[3] # <<>>
    /\ graph # EmptyGraph

====
